---- MODULE Spec2Model ----
(***************************************************************************)
(* Model of the scraping pipeline of deepseek-web-scraper:                 *)
(*   - the POST /scrape handler (src/src/index.js),                        *)
(*   - class AIScraper (src/unnamed/part_000): initBrowser, closeBrowser,  *)
(*     extractWithAI, extractProductsFallback, scrapeProductDetails,       *)
(*     scrapeProducts.                                                     *)
(* Every await of the code is one step; every browser / extraction-service *)
(* operation either completes or rejects.                                  *)
(*                                                                         *)
(* Specifications:                                                         *)
(*   Spec         one POST /scrape request, from its arrival to its        *)
(*                response; FairSpec adds that every await settles         *)
(*   SpecAI       one extractWithAI call on an arbitrary reply             *)
(*   SpecSession  sequences of initBrowser / closeBrowser calls            *)
(*   SpecConc     several POST /scrape requests in flight together         *)
(*   SpecCard     the selector extractor on one product card               *)
(*                                                                         *)
(* JavaScript values are abstracted to strings:                            *)
(*   "undef" undefined (property absent)   "null" null     "" empty string *)
(*   "num"   a non-zero number             "-"    the sentinel             *)
(*   anything else: a non-empty string with that content.                  *)
(***************************************************************************)
EXTENDS Integers, Sequences, FiniteSets, TLC

\* ---------------------------------------------------------------- bounds
MaxPagesBound == 2      \* maxPages of a request ranges over 1..MaxPagesBound
MaxProducts == 3        \* products the listing holds in total, over all its pages
MaxReplyLen == 3        \* tokens of a model reply
MaxRequests == 2        \* POST /scrape requests in flight together
MaxLaunches == 3        \* browser processes puppeteer.launch creates in a run
MaxElems == 2           \* elements of a product card

\* ---------------------------------------------------------------- values
Sentinel == "-"

\* JavaScript truthiness of a value (the `x || '-'` and `x && ...` tests).
Truthy(v) == v \notin {"undef", "null", ""}

\* typeof v === 'string'
IsString(v) == v \notin {"undef", "null", "num"}

\* `v || '-'`
OrSentinel(v) == IF Truthy(v) THEN v ELSE Sentinel

\* ------------------------------------------------------- extractWithAI
\* Outcome of axios.post and of reading response.data.choices[0].message.content.
Transports == {"ok", "network", "non2xx", "badshape"}

\* A model reply is a sequence of tokens: braces, free text "t", and the JSON
\* members `"products": ...` ("P") and `"description": ...` ("D").
Tokens == {"{", "}", "P", "D", "t"}
Replies == UNION {[1..n -> Tokens] : n \in 0..MaxReplyLen}

\* What the AI may put in a product: a complete product, one with the price
\* as a number, the link omitted and the image null, and one whose link and
\* image are paths relative to the site (the prompt's rule "Ensure URLs are
\* complete" is a request to the model, its reply is taken as it comes).
AIShapes ==
    { [name |-> "name", price |-> "$1", link |-> "https://item", imageUrl |-> "https://img"],
      [name |-> "name", price |-> "num", link |-> "undef", imageUrl |-> "null"],
      [name |-> "name", price |-> "$1", link |-> "/itm/1", imageUrl |-> "/img/1"] }
AILists == UNION {[1..n -> AIShapes] : n \in 0..MaxProducts}

\* The values the members of the reply carry: the products member is an array
\* (kind "array") or not iterable (kind "num"); the description member.
Payloads ==
    [kind : {"array", "num"}, products : AILists, description : {"desc", Sentinel}]

\* aiResponse.match(/\{[\s\S]*\}/): the first "{" up to the LAST "}" after it.
HasBrace(r, c) == \E k \in 1..Len(r) : r[k] = c
FirstOpen(r) == CHOOSE k \in 1..Len(r) : r[k] = "{" /\ \A j \in 1..(k-1) : r[j] # "{"
LastClose(r) == CHOOSE k \in 1..Len(r) : r[k] = "}" /\ \A j \in (k+1)..Len(r) : r[j] # "}"
jsonMatch(r) ==
    IF HasBrace(r, "{") /\ HasBrace(r, "}") /\ FirstOpen(r) < LastClose(r)
    THEN SubSeq(r, FirstOpen(r), LastClose(r))
    ELSE <<>>                       \* null: no match

\* JSON.parse succeeds on the matched text iff only members lie between the braces.
ParsesAsJSON(m) == \A k \in 2..(Len(m)-1) : m[k] \in {"P", "D"}
HasMember(m, t) == \E k \in 2..(Len(m)-1) : m[k] = t

\* The object the catch block returns: { products: [] }.
EmptyResult ==
    [threw |-> FALSE, kind |-> "array", products |-> <<>>, description |-> "undef"]

\* JSON.parse(jsonMatch[0]): the members present in the text, with the payload's values.
ParsedObject(m, payload) ==
    [threw |-> FALSE,
     kind |-> IF HasMember(m, "P") THEN payload.kind ELSE "undef",
     products |-> IF HasMember(m, "P") /\ payload.kind = "array"
                  THEN payload.products ELSE <<>>,
     description |-> IF HasMember(m, "D") THEN payload.description ELSE "undef"]

\* Variant: the `throw new Error('Invalid JSON response from AI')` and the
\* JSON.parse error escape the function (no enclosing try/catch).
ExtractWithAINoCatch(transport, reply, payload) ==
    IF transport # "ok" THEN EmptyResult
    ELSE IF jsonMatch(reply) = <<>> \/ ~ParsesAsJSON(jsonMatch(reply))
         THEN [EmptyResult EXCEPT !.threw = TRUE]
         ELSE ParsedObject(jsonMatch(reply), payload)

\* extractWithAI(htmlContent): every failure inside the try is caught.
ExtractWithAI(transport, reply, payload) ==
    IF transport # "ok" THEN EmptyResult
    ELSE IF jsonMatch(reply) = <<>> THEN EmptyResult
    ELSE IF ~ParsesAsJSON(jsonMatch(reply)) THEN EmptyResult
    ELSE ParsedObject(jsonMatch(reply), payload)

\* Every result extractWithAI can return, over all service outcomes and replies.
AIResults ==
    UNION { {ExtractWithAI(t, r, p) : t \in Transports, r \in Replies} : p \in Payloads }

\* The parts of a result its two callers read: aiResult.products on a listing
\* page, aiResult.description on a detail page.
AIListings ==
    {[threw |-> res.threw, kind |-> res.kind, products |-> res.products] : res \in AIResults}
AIDescriptions ==
    {[threw |-> res.threw, description |-> res.description] : res \in AIResults}

\* ------------------------------------------------ extractProductsFallback
\* A product card of the DOM: the text of its title element, of its price
\* element, the href of its anchor and the src of its image ("none": no such
\* element in the card).
Cards ==
    { [title |-> "title", price |-> "$2", a |-> "https://item", img |-> "https://img"],
      [title |-> "title", price |-> "none", a |-> "none", img |-> "none"],
      [title |-> "Shop on eBay", price |-> "$2", a |-> "https://item", img |-> "https://img"],
      [title |-> "none", price |-> "$2", a |-> "https://item", img |-> "https://img"] }
CardLists == UNION {[1..n -> Cards] : n \in 0..MaxProducts}

\* `el ? el.textContent.trim() : '-'` and the like.
FieldOf(el) == IF el = "none" THEN Sentinel ELSE el

CardProduct(c) ==
    [name |-> FieldOf(c.title), price |-> FieldOf(c.price),
     link |-> FieldOf(c.a), imageUrl |-> FieldOf(c.img)]

\* if (name !== '-' && !name.includes('Shop on eBay')) products.push(...)
KeepCard(c) == FieldOf(c.title) # Sentinel /\ FieldOf(c.title) # "Shop on eBay"

RECURSIVE FallbackProducts(_)
FallbackProducts(cards) ==
    IF cards = <<>> THEN <<>>
    ELSE (IF KeepCard(Head(cards)) THEN <<CardProduct(Head(cards))>> ELSE <<>>)
         \o FallbackProducts(Tail(cards))

\* ------------------------------------------------------------------ state
VARIABLES
    pc,            \* the step the request's processing is at
    apiKey,        \* DEEPSEEK_API_KEY is set (process configuration)
    hasUrl,        \* the request body carries a url
    maxPages,      \* the request's maxPages
    browser,       \* scraper.browser: "null" or "handle"
    browserProc,   \* the browser process: "none", "running" or "closed"
    status,        \* HTTP status of the response sent (0: none yet)
    body,          \* products of the 200 response
    currentPage,   \* scrapeProducts: currentPage
    allProducts,   \* scrapeProducts: allProducts
    products,      \* scrapeProducts: products of the current listing page
    prodKind,      \* "array", or "num" when aiResult.products is not iterable
    i,             \* scrapeProducts: index of the detail loop (1-based)
    listingOpen,   \* listing page contexts currently open
    detailOpen,    \* detail page contexts currently open
    dret,          \* scrapeProductDetails: the value its try/catch completed with
    \* history of the run
    pagesOpened,   \* listing pages opened so far
    emptyAt,       \* page index that yielded zero products (0: none)
    failedAt,      \* page index whose processing raised an exception (0: none)
    failKind,      \* the operation that raised it
    scrapeExit,    \* "none", "returned" or "threw": how scrapeProducts ended
    aiEver,        \* the extraction service has been called during this request
    aiTried,       \* extractWithAI was called for the current listing page
    aiEmpty,       \* ... and its product list had length 0
    selTried,      \* extractProductsFallback was called for the current listing page
    found,         \* per listing page, the number of products extracted
    lastEval,      \* outcome of the last description-selector evaluation
    aiIn, aiOut,   \* input and result of an isolated extractWithAI call
    urlPgn,        \* the request's url contains the text `_pgn=1`
    scraperMade,   \* the handler has run `new AIScraper()`
    errText,       \* the `error` member of a 400 / 500 response ("none": no such)
    totalProducts, \* the totalProducts member of the 200 response
    navigated,     \* the page.goto calls on listing pages, in order
    fetched,       \* indices of the current page's products a detail page was requested for
    \* browser sessions (several scrapers)
    sb,            \* per scraper, this.browser: 0 (null) or the number of a process
    proc,          \* per browser process: "none", "running" or "closed"
    rpc,           \* per request, the step its handler is at
    rbrowser,      \* per request, the `browser` constant of its scrapeProducts call
    lastCall,      \* the last initBrowser / closeBrowser call and what it did
    \* one card of the selector extractor
    cardIn, cardOut

cfgv == <<apiKey, hasUrl, maxPages, urlPgn, scraperMade>>
brv == <<browser, browserProc>>
resp == <<status, body, errText, totalProducts>>
accv == <<currentPage, allProducts>>
bodyv == <<products, prodKind, i, fetched>>
loopv == <<accv, bodyv>>
pagev == <<listingOpen, detailOpen, pagesOpened>>
histv == <<emptyAt, failedAt, failKind, scrapeExit>>
extv == <<aiEver, aiTried, aiEmpty, selTried, found>>
detv == <<dret, lastEval>>
aiv == <<aiIn, aiOut>>
sessv == <<sb, proc, rpc, rbrowser, lastCall>>
cardv == <<cardIn, cardOut>>
mainv == <<cfgv, brv, resp, loopv, pagev, histv, extv, detv, aiv, navigated>>
vars == <<pc, mainv, sessv, cardv>>

\* `products`, `i` and the detail fetch's locals go out of scope when control
\* leaves the body of the inner try.
LeaveBody ==
    /\ products' = <<>>
    /\ prodKind' = "array"
    /\ i' = 1
    /\ fetched' = <<>>
    /\ dret' = Sentinel
    /\ lastEval' = "none"

NoPayload == [kind |-> "array", products |-> <<>>, description |-> Sentinel]
NoInput == [transport |-> "ok", reply |-> <<>>, payload |-> NoPayload]

\* Scrapers and browser processes.  Processes are numbered 1..MaxLaunches in
\* the order puppeteer.launch creates them; a handle is the number of its
\* process, 0 is null.
Scrapers == 1..MaxRequests
Procs == 1..MaxLaunches

NoCall ==
    [op |-> "none", on |-> 0, held |-> 0, ret |-> 0, launched |-> FALSE, threw |-> FALSE]

SessionAtRest ==
    /\ sb = [s \in Scrapers |-> 0]
    /\ proc = [p \in Procs |-> "none"]
    /\ rpc = [r \in Scrapers |-> "idle"]
    /\ rbrowser = [r \in Scrapers |-> 0]
    /\ lastCall = NoCall

\* No card extracted yet.
NoCard == [name |-> "undef", price |-> "undef", link |-> "undef", kept |-> FALSE]

Init ==
    /\ pc = "h_request"
    /\ apiKey \in BOOLEAN
    /\ hasUrl = FALSE
    /\ urlPgn = FALSE
    /\ scraperMade = FALSE
    /\ maxPages = 1
    /\ browser = "null"
    /\ browserProc = "none"
    /\ status = 0
    /\ body = <<>>
    /\ errText = "none"
    /\ totalProducts = 0
    /\ navigated = <<>>
    /\ fetched = <<>>
    /\ currentPage = 1
    /\ allProducts = <<>>
    /\ products = <<>>
    /\ prodKind = "array"
    /\ i = 1
    /\ listingOpen = 0
    /\ detailOpen = 0
    /\ dret = Sentinel
    /\ pagesOpened = 0
    /\ emptyAt = 0
    /\ failedAt = 0
    /\ failKind = "none"
    /\ scrapeExit = "none"
    /\ aiEver = FALSE
    /\ aiTried = FALSE
    /\ aiEmpty = FALSE
    /\ selTried = FALSE
    /\ found = <<>>
    /\ lastEval = "none"
    /\ aiIn = NoInput
    /\ aiOut = EmptyResult
    /\ SessionAtRest
    /\ cardIn = <<>> /\ cardOut = NoCard

\* ------------------------------------------------------- POST /scrape
\* const { url, maxPages = 3 } = req.body; if (!url) return 400;
\* const scraper = new AIScraper(); scraper.scrapeProducts(url, maxPages) begins.
\* Variant: the url test is missing.
UrlMissingIgnored(u) == FALSE
\* if (!url)
UrlMissing(u) == ~u

ReceiveRequest ==
    /\ pc = "h_request"
    /\ \E u \in BOOLEAN, g \in BOOLEAN, m \in 1..MaxPagesBound :
         /\ u \/ ~g
         /\ hasUrl' = u
         /\ urlPgn' = g
         /\ maxPages' = m
         /\ IF UrlMissing(u)
            THEN /\ pc' = "h_done"
                 /\ status' = 400
                 /\ errText' = "URL is required"
                 /\ UNCHANGED <<body, totalProducts, scraperMade>>
            ELSE /\ pc' = "s_init"
                 /\ scraperMade' = TRUE
                 /\ UNCHANGED resp
    /\ UNCHANGED <<apiKey, brv, loopv, pagev, histv, extv, detv, aiv, navigated, sessv, cardv>>

\* initBrowser(): launch only when no handle is held, keep and return the handle.
InitBrowserLaunch(b) == IF b = "null" THEN "handle" ELSE b

\* scrapeProducts: `const browser = await this.initBrowser()` (outside the try),
\* allProducts = [], currentPage = 1.  A rejected launch leaves scrapeProducts
\* by exception.
ScrapeInit ==
    /\ pc = "s_init"
    /\ \/ /\ browser' = InitBrowserLaunch(browser)
          /\ browserProc' = IF browser = "null" THEN "running" ELSE browserProc
          /\ pc' = "s_loop"
          /\ allProducts' = <<>>
          /\ currentPage' = 1
          /\ UNCHANGED <<products, prodKind, i, fetched, histv>>
       \/ /\ pc' = "h_catch"
          /\ scrapeExit' = "threw"
          /\ failKind' = "launch"
          /\ UNCHANGED <<brv, loopv, emptyAt, failedAt>>
    /\ UNCHANGED <<cfgv, resp, pagev, extv, detv, aiv, navigated, sessv, cardv>>

\* The exits of the inner try: the inner catch, and the outer catch.
InnerCatch(kind, page) ==
    /\ pc' = "s_catch"
    /\ failedAt' = page
    /\ failKind' = kind
    /\ LeaveBody
    /\ UNCHANGED <<emptyAt, scrapeExit>>

OuterCatch(kind) ==
    /\ pc' = "s_return"
    /\ failedAt' = IF failedAt = 0 THEN currentPage ELSE failedAt
    /\ failKind' = IF failKind = "none" THEN kind ELSE failKind
    /\ UNCHANGED <<emptyAt, scrapeExit>>

\* while (currentPage <= maxPages)
LoopContinuesOffByOne(cp, mp) == cp <= mp + 1
LoopContinues(cp, mp) == cp <= mp

LoopTest ==
    /\ pc = "s_loop"
    /\ pc' = IF LoopContinues(currentPage, maxPages) THEN "s_newPage" ELSE "s_return"
    /\ UNCHANGED <<cfgv, brv, resp, loopv, pagev, histv, extv, detv, aiv, navigated, sessv, cardv>>

\* const page = await browser.newPage();
NewListingPage ==
    /\ pc = "s_newPage"
    /\ \/ /\ listingOpen' = listingOpen + 1
          /\ pagesOpened' = pagesOpened + 1
          /\ pc' = "s_setUA"
          /\ aiTried' = FALSE /\ aiEmpty' = FALSE /\ selTried' = FALSE
          /\ UNCHANGED <<detailOpen, histv, aiEver, found>>
       \/ /\ OuterCatch("listing_newPage")
          /\ UNCHANGED <<pagev, extv>>
    /\ UNCHANGED <<cfgv, brv, resp, loopv, detv, aiv, navigated, sessv, cardv>>

\* await page.setUserAgent(...)  -- inside the outer try only
SetUserAgent ==
    /\ pc = "s_setUA"
    /\ \/ /\ pc' = "s_goto"
          /\ UNCHANGED histv
       \/ OuterCatch("listing_setUA")
    /\ UNCHANGED <<cfgv, brv, resp, loopv, pagev, extv, detv, aiv, navigated, sessv, cardv>>

\* const pageUrl = url.replace('_pgn=1', `_pgn=${currentPage}`): the page number
\* the navigated URL asks for (0: the url has no `_pgn=1`, it is used as given).
PageUrl(hasPgn, cp) == IF hasPgn THEN cp ELSE 0

\* await page.goto(pageUrl, { waitUntil: 'networkidle2', timeout: 30000 }); 2 s delay
Goto ==
    /\ pc = "s_goto"
    /\ navigated' = Append(navigated, [index |-> currentPage,
                                       pgn |-> PageUrl(urlPgn, currentPage)])
    /\ \/ /\ pc' = "s_content"
          /\ UNCHANGED <<histv, bodyv, detv>>
       \/ InnerCatch("goto", currentPage)
    /\ UNCHANGED <<cfgv, brv, resp, accv, pagev, extv, aiv, sessv, cardv>>

\* if (DEEPSEEK_API_KEY) { ... extractWithAI ... }
CallsAIAlways(key) == TRUE
CallsAI(key) == key

\* const htmlContent = await page.content(); let products = [];
Content ==
    /\ pc = "s_content"
    /\ \/ /\ pc' = IF CallsAI(apiKey) THEN "s_ai" ELSE "s_fallback"
          /\ products' = <<>>
          /\ prodKind' = "array"
          /\ UNCHANGED <<i, fetched, histv, detv>>
       \/ InnerCatch("content", currentPage)
    /\ UNCHANGED <<cfgv, brv, resp, accv, pagev, extv, aiv, navigated, sessv, cardv>>

\* A product as scrapeProducts holds it: the extractor's four fields, the
\* description (absent until the detail loop sets it), and where it was found.
Tag(list, page) ==
    [k \in 1..Len(list) |->
        [name |-> list[k].name, price |-> list[k].price, link |-> list[k].link,
         imageUrl |-> list[k].imageUrl, description |-> "undef",
         page |-> page, idx |-> k]]

\* products.length === 0 (undefined === 0 is false for a non-array)
LengthIsZero(kind, ps) == kind = "array" /\ Len(ps) = 0

\* if (products.length === 0) products = await this.extractProductsFallback(page)
UsesFallbackAlways(kind, ps) == kind = "array"
UsesFallback(kind, ps) == LengthIsZero(kind, ps)

\* const aiResult = await this.extractWithAI(htmlContent, 'listing');
\* products = aiResult.products || [];
ListingAI ==
    /\ pc = "s_ai"
    /\ \E res \in AIListings :
         LET kind == IF res.kind = "num" THEN "num" ELSE "array"
             ps == Tag(res.products, currentPage)
         IN  /\ Len(allProducts) + Len(ps) <= MaxProducts
             /\ aiEver' = TRUE
             /\ aiTried' = TRUE
             /\ selTried' = selTried
             /\ IF res.threw
                THEN /\ InnerCatch("extract", currentPage)
                     /\ UNCHANGED <<aiEmpty, found>>
                ELSE /\ products' = ps
                     /\ prodKind' = kind
                     /\ aiEmpty' = (res.kind # "num" /\ res.products = <<>>)
                     /\ i' = 1
                     /\ fetched' = <<>>
                     /\ pc' = IF UsesFallback(kind, ps) THEN "s_fallback" ELSE "s_details"
                     /\ found' = IF UsesFallback(kind, ps) THEN found
                                 ELSE Append(found, Len(ps))
                     /\ UNCHANGED <<histv, detv>>
    /\ UNCHANGED <<cfgv, brv, resp, accv, pagev, aiv, navigated, sessv, cardv>>

\* products = await this.extractProductsFallback(page);  (page.evaluate rejected: [])
\* if (products.length === 0) { ...; await page.close(); break; }
SelectorFallback ==
    /\ pc = "s_fallback"
    /\ \E cards \in CardLists, evalOk \in BOOLEAN :
         LET got == IF evalOk THEN FallbackProducts(cards) ELSE <<>>
             ps == Tag(got, currentPage)
         IN  /\ Len(allProducts) + Len(ps) <= MaxProducts
             /\ products' = ps
             /\ selTried' = TRUE
             /\ found' = Append(found, Len(ps))
             /\ i' = 1
             /\ IF LengthIsZero(prodKind, ps)
                THEN /\ pc' = "s_emptyClose"
                     /\ emptyAt' = currentPage
                ELSE /\ pc' = "s_details"
                     /\ UNCHANGED emptyAt
    /\ UNCHANGED <<cfgv, brv, resp, accv, prodKind, fetched, pagev,
                   failedAt, failKind, scrapeExit, aiEver, aiTried, aiEmpty, detv, aiv, navigated, sessv, cardv>>

\* Variants: page.close() is not called, the page is left open.
CloseListingSkipped(n) == n
CloseDetailSkipped(n) == n
\* page.close(): one page context fewer.
CloseListing(n) == n - 1
CloseDetail(n) == n - 1

\* After `break` on an empty page control leaves the loop.
AfterEmpty == "s_return"

\* await page.close(); break;   (empty page)
EmptyClose ==
    /\ pc = "s_emptyClose"
    /\ \/ /\ listingOpen' = CloseListing(listingOpen)
          /\ pc' = AfterEmpty
          /\ UNCHANGED <<detailOpen, pagesOpened, histv, bodyv, detv>>
       \/ /\ InnerCatch("empty_close", currentPage)
          /\ UNCHANGED pagev
    /\ UNCHANGED <<cfgv, brv, resp, accv, extv, aiv, navigated, sessv, cardv>>

\* Variant: the sentinel counts as a link.
UsableLinkTruthy(l) == Truthy(l)
\* if (product.link && product.link !== '-')
UsableLink(l) == Truthy(l) /\ l # Sentinel

\* for (let i = 0; i < products.length; i++): the loop is over
DetailsDone ==
    /\ pc = "s_details"
    /\ i > Len(products)
    /\ pc' = "s_push"
    /\ UNCHANGED <<cfgv, brv, resp, loopv, pagev, histv, extv, detv, aiv, navigated, sessv, cardv>>

\* else { product.description = '-'; }
DetailNoLink ==
    /\ pc = "s_details"
    /\ i <= Len(products)
    /\ ~UsableLink(products[i].link)
    /\ products' = [products EXCEPT ![i].description = Sentinel]
    /\ i' = i + 1
    /\ UNCHANGED <<pc, cfgv, brv, resp, accv, prodKind, fetched, pagev,
                   histv, extv, detv, aiv, navigated, sessv, cardv>>

\* scrapeProductDetails: const browser = await this.initBrowser();
\* const page = await browser.newPage();   -- both before the try
DetailNewPage ==
    /\ pc = "s_details"
    /\ i <= Len(products)
    /\ UsableLink(products[i].link)
    /\ browser' = InitBrowserLaunch(browser)
    /\ browserProc' = IF browser = "null" THEN "running" ELSE browserProc
    /\ \/ /\ detailOpen' = detailOpen + 1
          /\ fetched' = Append(fetched, i)
          /\ pc' = "d_setUA"
          /\ UNCHANGED <<listingOpen, pagesOpened, histv, products, prodKind, i, detv>>
       \/ /\ InnerCatch("detail_newPage", currentPage)
          /\ UNCHANGED pagev
    /\ UNCHANGED <<cfgv, resp, accv, extv, aiv, navigated, sessv, cardv>>

\* catch (error) { return '-'; } of scrapeProductDetails
DetailCatch ==
    /\ dret' = Sentinel
    /\ pc' = "d_finally"

\* await page.setUserAgent(...)
DetailSetUA ==
    /\ pc = "d_setUA"
    /\ \/ /\ pc' = "d_goto"
          /\ UNCHANGED dret
       \/ DetailCatch
    /\ UNCHANGED <<cfgv, brv, resp, loopv, pagev, histv, extv, lastEval, aiv, navigated, sessv, cardv>>

\* await page.goto(productUrl, { waitUntil: 'networkidle2', timeout: 30000 });
DetailGoto ==
    /\ pc = "d_goto"
    /\ \/ /\ pc' = "d_content"
          /\ UNCHANGED dret
       \/ DetailCatch
    /\ UNCHANGED <<cfgv, brv, resp, loopv, pagev, histv, extv, lastEval, aiv, navigated, sessv, cardv>>

\* const htmlContent = await page.content(); if (DEEPSEEK_API_KEY) ...
DetailContent ==
    /\ pc = "d_content"
    /\ \/ /\ pc' = IF CallsAI(apiKey) THEN "d_ai" ELSE "d_eval"
          /\ UNCHANGED dret
       \/ DetailCatch
    /\ UNCHANGED <<cfgv, brv, resp, loopv, pagev, histv, extv, lastEval, aiv, navigated, sessv, cardv>>

\* const aiResult = await this.extractWithAI(htmlContent);
\* if (aiResult.description && aiResult.description !== '-') return aiResult.description;
DetailAI ==
    /\ pc = "d_ai"
    /\ aiEver' = TRUE
    /\ \E res \in AIDescriptions :
         IF res.threw THEN DetailCatch
         ELSE IF UsableLink(res.description)
              THEN /\ dret' = res.description
                   /\ pc' = "d_finally"
              ELSE /\ pc' = "d_eval"
                   /\ UNCHANGED dret
    /\ UNCHANGED <<cfgv, brv, resp, loopv, pagev, histv, aiTried, aiEmpty, selTried,
                   found, lastEval, aiv, navigated, sessv, cardv>>

\* The text page.evaluate returns: the first matching description selector's
\* trimmed text, '-' when none matches.
EvalText(out) ==
    CASE out = "match" -> "desc"
      [] out = "matchEmpty" -> ""
      [] OTHER -> Sentinel

\* const description = await page.evaluate(...); return description || '-';
DetailEval ==
    /\ pc = "d_eval"
    /\ \E out \in {"match", "matchEmpty", "nomatch", "throw"} :
         /\ lastEval' = out
         /\ IF out = "throw" THEN DetailCatch
            ELSE /\ dret' = OrSentinel(EvalText(out))
                 /\ pc' = "d_finally"
    /\ UNCHANGED <<cfgv, brv, resp, loopv, pagev, histv, extv, aiv, navigated, sessv, cardv>>

\* finally { await page.close(); }  then, in scrapeProducts,
\* product.description = <the returned value>; i++
DetailFinally ==
    /\ pc = "d_finally"
    /\ \/ /\ detailOpen' = CloseDetail(detailOpen)
          /\ products' = [products EXCEPT ![i].description = dret]
          /\ i' = i + 1
          /\ pc' = "s_details"
          /\ dret' = Sentinel
          /\ lastEval' = "none"
          /\ UNCHANGED <<listingOpen, pagesOpened, prodKind, fetched, histv>>
       \/ /\ InnerCatch("detail_close", currentPage)
          /\ UNCHANGED pagev
    /\ UNCHANGED <<cfgv, brv, resp, accv, extv, aiv, navigated, sessv, cardv>>

\* Variant: the page's products are dropped instead of appended.
PushDropped(all, ps) == all
\* Variant: only the products that carry a link are appended.
PushLinkedOnly(all, ps) ==
    all \o SelectSeq(ps, LAMBDA p : p.link \notin {"undef", "null", "", "-"})
\* allProducts.push(...products)
Push(all, ps) == all \o ps

\* Variant: the page index is not advanced.
NextPageSame(cp) == cp
\* currentPage++
NextPage(cp) == cp + 1

\* allProducts.push(...products) (a TypeError when products is not iterable);
\* currentPage++
PushPage ==
    /\ pc = "s_push"
    /\ IF prodKind # "array"
       THEN /\ InnerCatch("extract", currentPage)
            /\ UNCHANGED accv
       ELSE /\ allProducts' = Push(allProducts, products)
            /\ currentPage' = NextPage(currentPage)
            /\ pc' = "s_close"
            /\ UNCHANGED <<bodyv, histv, detv>>
    /\ UNCHANGED <<cfgv, brv, resp, pagev, extv, aiv, navigated, sessv, cardv>>

\* await page.close(); then the 2 s delay before the next iteration
ClosePage ==
    /\ pc = "s_close"
    /\ \/ /\ listingOpen' = CloseListing(listingOpen)
          /\ pc' = "s_loop"
          /\ LeaveBody
          /\ UNCHANGED <<detailOpen, pagesOpened, histv>>
       \/ /\ InnerCatch("listing_close", currentPage - 1)
          /\ UNCHANGED pagev
    /\ UNCHANGED <<cfgv, brv, resp, accv, extv, aiv, navigated, sessv, cardv>>

\* catch (pageError) { ...; await page.close(); break; }
\* a rejected close is caught by the outer catch
PageErrorCatch ==
    /\ pc = "s_catch"
    /\ \/ /\ listingOpen' = CloseListing(listingOpen)
          /\ pc' = "s_return"
          /\ UNCHANGED <<detailOpen, pagesOpened, histv>>
       \/ /\ OuterCatch("catch_close")
          /\ UNCHANGED pagev
    /\ UNCHANGED <<cfgv, brv, resp, loopv, extv, detv, aiv, navigated, sessv, cardv>>

\* return allProducts;  back in the handler: const products = await ...
ScrapeReturn ==
    /\ pc = "s_return"
    /\ scrapeExit' = "returned"
    /\ pc' = "h_close"
    /\ UNCHANGED <<cfgv, brv, resp, loopv, pagev, emptyAt, failedAt, failKind,
                   extv, detv, aiv, navigated, sessv, cardv>>

\* closeBrowser(): if (this.browser) { await this.browser.close(); this.browser = null; }
\* A rejected close leaves the handle set and reaches the handler's catch.
CloseBrowser ==
    /\ pc = "h_close"
    /\ IF browser = "null"
       THEN /\ pc' = "h_respond"
            /\ UNCHANGED brv
       ELSE \/ /\ browserProc' = "closed"
               /\ browser' = "null"
               /\ pc' = "h_respond"
            \/ /\ browserProc' \in {"running", "closed"}
               /\ browser' = browser
               /\ pc' = "h_catch"
    /\ UNCHANGED <<cfgv, resp, loopv, pagev, histv, extv, detv, aiv, navigated, sessv, cardv>>

\* products.map(product => ({ name: product.name || '-', ... }))
ResponseProduct(p) ==
    [name |-> OrSentinel(p.name), price |-> OrSentinel(p.price),
     description |-> OrSentinel(p.description), link |-> OrSentinel(p.link),
     imageUrl |-> OrSentinel(p.imageUrl)]

\* res.json({ success: true, totalProducts: products.length, products: ... })
Respond ==
    /\ pc = "h_respond"
    /\ status' = 200
    /\ body' = [k \in 1..Len(allProducts) |-> ResponseProduct(allProducts[k])]
    /\ totalProducts' = Len(allProducts)
    /\ pc' = "h_done"
    /\ UNCHANGED errText
    /\ UNCHANGED <<cfgv, brv, loopv, pagev, histv, extv, detv, aiv, navigated, sessv, cardv>>

\* catch (error) { res.status(500).json({ error: 'Scraping failed', ... }) }
HandlerCatch ==
    /\ pc = "h_catch"
    /\ status' = 500
    /\ errText' = "Scraping failed"
    /\ pc' = "h_done"
    /\ UNCHANGED <<body, totalProducts, cfgv, brv, loopv, pagev, histv, extv, detv, aiv, navigated, sessv, cardv>>

Next ==
    \/ ReceiveRequest
    \/ ScrapeInit
    \/ LoopTest
    \/ NewListingPage
    \/ SetUserAgent
    \/ Goto
    \/ Content
    \/ ListingAI
    \/ SelectorFallback
    \/ EmptyClose
    \/ DetailsDone
    \/ DetailNoLink
    \/ DetailNewPage
    \/ DetailSetUA
    \/ DetailGoto
    \/ DetailContent
    \/ DetailAI
    \/ DetailEval
    \/ DetailFinally
    \/ PushPage
    \/ ClosePage
    \/ PageErrorCatch
    \/ ScrapeReturn
    \/ CloseBrowser
    \/ Respond
    \/ HandlerCatch

Spec == Init /\ [][Next]_vars

\* Every browser and extraction-service operation eventually returns or throws:
\* a step that can be taken is eventually taken.
FairSpec == Spec /\ WF_vars(Next)

\* ------------------------------------------- extractWithAI in isolation
\* One call of extractWithAI on an arbitrary service outcome and reply.
InitAI ==
    /\ pc = "x_call"
    /\ aiIn \in [transport : Transports, reply : Replies, payload : Payloads]
    /\ aiOut = EmptyResult
    /\ apiKey = TRUE
    /\ hasUrl = FALSE
    /\ urlPgn = FALSE
    /\ scraperMade = FALSE
    /\ maxPages = 1
    /\ browser = "null"
    /\ browserProc = "none"
    /\ status = 0
    /\ body = <<>>
    /\ errText = "none"
    /\ totalProducts = 0
    /\ navigated = <<>>
    /\ fetched = <<>>
    /\ currentPage = 1
    /\ allProducts = <<>>
    /\ products = <<>>
    /\ prodKind = "array"
    /\ i = 1
    /\ listingOpen = 0
    /\ detailOpen = 0
    /\ dret = Sentinel
    /\ pagesOpened = 0
    /\ emptyAt = 0
    /\ failedAt = 0
    /\ failKind = "none"
    /\ scrapeExit = "none"
    /\ aiEver = FALSE
    /\ aiTried = FALSE
    /\ aiEmpty = FALSE
    /\ selTried = FALSE
    /\ found = <<>>
    /\ lastEval = "none"
    /\ SessionAtRest
    /\ cardIn = <<>> /\ cardOut = NoCard

CallExtractWithAI ==
    /\ pc = "x_call"
    /\ aiOut' = ExtractWithAI(aiIn.transport, aiIn.reply, aiIn.payload)
    /\ pc' = "x_done"
    /\ UNCHANGED <<aiIn, cfgv, brv, resp, loopv, pagev, histv, extv, detv, navigated,
                   sessv, cardv>>

NextAI == CallExtractWithAI

SpecAI == InitAI /\ [][NextAI]_vars

\* ------------------------------------- browser sessions: initBrowser / closeBrowser
\* The state of the single-request model while another model runs.
RequestAtRest ==
    /\ apiKey = TRUE
    /\ hasUrl = FALSE
    /\ urlPgn = FALSE
    /\ scraperMade = FALSE
    /\ maxPages = 1
    /\ browser = "null"
    /\ browserProc = "none"
    /\ status = 0
    /\ body = <<>>
    /\ errText = "none"
    /\ totalProducts = 0
    /\ navigated = <<>>
    /\ fetched = <<>>
    /\ currentPage = 1
    /\ allProducts = <<>>
    /\ products = <<>>
    /\ prodKind = "array"
    /\ i = 1
    /\ listingOpen = 0
    /\ detailOpen = 0
    /\ dret = Sentinel
    /\ pagesOpened = 0
    /\ emptyAt = 0
    /\ failedAt = 0
    /\ failKind = "none"
    /\ scrapeExit = "none"
    /\ aiEver = FALSE
    /\ aiTried = FALSE
    /\ aiEmpty = FALSE
    /\ selTried = FALSE
    /\ found = <<>>
    /\ lastEval = "none"
    /\ aiIn = NoInput
    /\ aiOut = EmptyResult

\* The process the next puppeteer.launch creates.
HasFreshProc == \E p \in Procs : proc[p] = "none"
FreshProc == CHOOSE p \in Procs : proc[p] = "none" /\ \A q \in 1..(p - 1) : proc[q] # "none"

\* if (!this.browser)
MustLaunch(held) == held = 0

\* initBrowser() on scraper s, the launch fulfilled:
\* if (!this.browser) this.browser = await puppeteer.launch(...); return this.browser;
InitBrowserOn(s) ==
    IF MustLaunch(sb[s])
    THEN /\ HasFreshProc
         /\ sb' = [sb EXCEPT ![s] = FreshProc]
         /\ proc' = [proc EXCEPT ![FreshProc] = "running"]
    ELSE UNCHANGED <<sb, proc>>

\* closeBrowser() on scraper s, browser.close() fulfilled:
\* if (this.browser) { await this.browser.close(); this.browser = null; }
CloseBrowserOn(s) ==
    IF sb[s] # 0
    THEN /\ proc' = [proc EXCEPT ![sb[s]] = "closed"]
         /\ sb' = [sb EXCEPT ![s] = 0]
    ELSE UNCHANGED <<sb, proc>>

\* closeBrowser() on scraper s, browser.close() rejected: the assignment of
\* null is not reached; the process may or may not have ended.
CloseBrowserRejectedOn(s) ==
    /\ sb[s] # 0
    /\ \E st \in {"running", "closed"} : proc' = [proc EXCEPT ![sb[s]] = st]
    /\ UNCHANGED sb

\* --- any sequence of initBrowser and closeBrowser calls on the scrapers, each
\* call completing before the next begins.
InitSession ==
    /\ pc = "b_calls"
    /\ RequestAtRest
    /\ SessionAtRest
    /\ cardIn = <<>> /\ cardOut = NoCard

InitBrowserCall ==
    /\ pc = "b_calls"
    /\ \E s \in Scrapers :
         \/ /\ InitBrowserOn(s)
            /\ lastCall' = [op |-> "init", on |-> s, held |-> sb[s], ret |-> sb'[s],
                            launched |-> (proc' # proc), threw |-> FALSE]
         \/ /\ MustLaunch(sb[s])           \* puppeteer.launch rejected
            /\ lastCall' = [op |-> "init", on |-> s, held |-> sb[s], ret |-> 0,
                            launched |-> FALSE, threw |-> TRUE]
            /\ UNCHANGED <<sb, proc>>
    /\ UNCHANGED <<pc, mainv, rpc, rbrowser, cardv>>

CloseBrowserCall ==
    /\ pc = "b_calls"
    /\ \E s \in Scrapers :
         \/ /\ CloseBrowserOn(s)
            /\ lastCall' = [op |-> "close", on |-> s, held |-> sb[s], ret |-> 0,
                            launched |-> FALSE, threw |-> FALSE]
         \/ /\ CloseBrowserRejectedOn(s)
            /\ lastCall' = [op |-> "close", on |-> s, held |-> sb[s], ret |-> 0,
                            launched |-> FALSE, threw |-> TRUE]
    /\ UNCHANGED <<pc, mainv, rpc, rbrowser, cardv>>

NextSession ==
    \/ InitBrowserCall
    \/ CloseBrowserCall

SpecSession == InitSession /\ [][NextSession]_vars

\* --- concurrent POST /scrape requests, each running the handler of index.js
\* Variant: one scraper for the whole process instead of one per request.
ScraperShared(r) == 1
\* const scraper = new AIScraper();  -- the scraper request r works with
ScraperOf(r) == r

InitConc ==
    /\ pc = "c_requests"
    /\ RequestAtRest
    /\ SessionAtRest
    /\ cardIn = <<>> /\ cardOut = NoCard

\* The request arrives with a url: new AIScraper(), scrapeProducts is called.
ConcReceive(r) ==
    /\ rpc[r] = "idle"
    /\ rpc' = [rpc EXCEPT ![r] = "init"]
    /\ UNCHANGED <<sb, proc, rbrowser, lastCall, pc, mainv, cardv>>

\* scrapeProducts: const browser = await this.initBrowser();
ConcInitBrowser(r) ==
    /\ rpc[r] = "init"
    /\ \/ /\ InitBrowserOn(ScraperOf(r))
          /\ rbrowser' = [rbrowser EXCEPT ![r] = sb'[ScraperOf(r)]]
          /\ rpc' = [rpc EXCEPT ![r] = "listing"]
       \/ /\ MustLaunch(sb[ScraperOf(r)])    \* launch rejected: the handler's catch
          /\ rpc' = [rpc EXCEPT ![r] = "done"]
          /\ UNCHANGED <<sb, proc, rbrowser>>
    /\ UNCHANGED <<lastCall, pc, mainv, cardv>>

\* scrapeProducts opens a listing page: await browser.newPage()
ConcListing(r) ==
    /\ rpc[r] = "listing"
    /\ rpc' = [rpc EXCEPT ![r] = "detail"]
    /\ UNCHANGED <<sb, proc, rbrowser, lastCall, pc, mainv, cardv>>

\* A detail fetch calls initBrowser() again and opens a page of what it returns.
ConcDetail(r) ==
    /\ rpc[r] = "detail"
    /\ InitBrowserOn(ScraperOf(r))
    /\ rpc' = [rpc EXCEPT ![r] = "closing"]
    /\ UNCHANGED <<rbrowser, lastCall, pc, mainv, cardv>>

\* await scraper.closeBrowser(); then the response
ConcCloseBrowser(r) ==
    /\ rpc[r] = "closing"
    /\ \/ CloseBrowserOn(ScraperOf(r))
       \/ CloseBrowserRejectedOn(ScraperOf(r))
    /\ rpc' = [rpc EXCEPT ![r] = "done"]
    /\ UNCHANGED <<rbrowser, lastCall, pc, mainv, cardv>>

NextConc ==
    \/ \E r \in Scrapers : ConcReceive(r)
    \/ \E r \in Scrapers : ConcInitBrowser(r)
    \/ \E r \in Scrapers : ConcListing(r)
    \/ \E r \in Scrapers : ConcDetail(r)
    \/ \E r \in Scrapers : ConcCloseBrowser(r)

SpecConc == InitConc /\ [][NextConc]_vars

\* ------------------------- extractProductsFallback: the fields of one card
\* A product card as the DOM holds it: its elements in document order.  An
\* element has a kind (the class or tag the selectors look at) and a text; an
\* element of class s-item__link is an anchor, as in eBay's markup.
ElementKinds == {"s-item__title", "s-item__link", "h3", "s-item__price", "notranslate", "a"}
Texts == {"A", "B"}
Elements == [kind : ElementKinds, text : Texts]
CardDoms == UNION {[1..n -> Elements] : n \in 0..MaxElems}

\* The selector lists of the code, in the order they are written.
NameSelectors == <<"s-item__title", "s-item__link", "h3", "item-title">>
PriceSelectors == <<"s-item__price", "notranslate", "item-price">>
LinkSelectors == <<"a", "s-item__link">>

\* element.matches(selector) for one simple selector.
Matches(el, sel) ==
    IF sel = "a" THEN el.kind \in {"a", "s-item__link"} ELSE el.kind = sel
MatchesAny(el, sels) == \E j \in 1..Len(sels) : Matches(el, sels[j])

\* item.querySelector('s1, s2, ...'): the first element in document order that
\* matches any selector of the list (0: null).
QuerySelector(dom, sels) ==
    IF \E k \in 1..Len(dom) : MatchesAny(dom[k], sels)
    THEN CHOOSE k \in 1..Len(dom) :
            /\ MatchesAny(dom[k], sels)
            /\ \A j \in 1..(k - 1) : ~MatchesAny(dom[j], sels)
    ELSE 0

\* element.href of an anchor: the absolute URL the browser resolves it to.
Href(el) == IF el.text = "A" THEN "https://A" ELSE "https://B"

\* The body of productElements.forEach for one card: name, price and link, and
\* whether the product is pushed.
ExtractCard(dom) ==
    LET n == QuerySelector(dom, NameSelectors)
        p == QuerySelector(dom, PriceSelectors)
        l == QuerySelector(dom, LinkSelectors)
        name == IF n = 0 THEN Sentinel ELSE dom[n].text
    IN  [name |-> name,
         price |-> IF p = 0 THEN Sentinel ELSE dom[p].text,
         link |-> IF l = 0 THEN Sentinel ELSE Href(dom[l]),
         kept |-> (name # Sentinel /\ name # "Shop on eBay")]

InitCard ==
    /\ pc = "q_call"
    /\ cardIn \in CardDoms
    /\ cardOut = NoCard
    /\ RequestAtRest
    /\ SessionAtRest

CallExtractCard ==
    /\ pc = "q_call"
    /\ cardOut' = ExtractCard(cardIn)
    /\ pc' = "q_done"
    /\ UNCHANGED <<cardIn, mainv, sessv>>

NextCard == CallExtractCard

SpecCard == InitCard /\ [][NextCard]_vars

\* ================================================================ claims
\* The steps inside scrapeProductDetails, and those after scrapeProducts ended.
DetailPcs == {"d_setUA", "d_goto", "d_content", "d_ai", "d_eval", "d_finally"}
HandlerPcs == {"h_close", "h_respond", "h_catch", "h_done"}

\* <<page, index>> of each product of a list, and the list of them that the
\* first n listing pages yielded (found[p] products on page p).
Ids(ps) == [k \in 1..Len(ps) |-> <<ps[k].page, ps[k].idx>>]
PageIds(p, n) == [k \in 1..n |-> <<p, k>>]
RECURSIVE ExpectedIds(_, _)
ExpectedIds(f, n) ==
    IF n = 0 THEN <<>> ELSE ExpectedIds(f, n - 1) \o PageIds(n, f[n])

\* The four extractor fields of a product.
Fields4(p) ==
    [name |-> p.name, price |-> p.price, link |-> p.link, imageUrl |-> p.imageUrl]
FromAI(p) == Fields4(p) \in AIShapes
FromSelector(p) == Fields4(p) \in {CardProduct(c) : c \in Cards}

\* C1: for every request that launched a browser, once the HTTP response is
\* sent the browser is closed and the scraper's handle is cleared, on every
\* exit path, the 500 path included.
C1_BrowserReleasedAtResponse ==
    (status # 0 /\ browserProc # "none") =>
        (browser = "null" /\ browserProc = "closed")

\* C2: at most maxPages listing pages are opened, and once a listing page
\* has yielded zero products no further listing page is opened.
C2_PagesBoundedAndStopAtEmpty ==
    /\ pagesOpened <= maxPages
    /\ emptyAt # 0 => pagesOpened = emptyAt

C2_Witness ==
    /\ pc = "h_done" /\ status = 200
    /\ maxPages = 2 /\ emptyAt = 1 /\ pagesOpened = 1

\* C3: when the processing of listing page k raises an exception (navigation,
\* content read, extraction or a detail fetch), scrapeProducts returns normally
\* with exactly the products of pages 1..k-1, in order, each with its
\* description set, none of page k, and opens no page after k.
C3_PageFailures == {"goto", "content", "extract", "detail_newPage", "detail_close"}

C3_PartialResultsKept ==
    (failKind \in C3_PageFailures /\ pc \in {"s_catch", "s_return"} \cup HandlerPcs) =>
        /\ scrapeExit # "threw"
        /\ pc \in HandlerPcs => scrapeExit = "returned"
        /\ Ids(allProducts) = ExpectedIds(found, failedAt - 1)
        /\ \A k \in 1..Len(allProducts) : allProducts[k].description # "undef"
        /\ pagesOpened = failedAt

C3_Witness ==
    /\ pc = "h_done" /\ status = 200
    /\ failKind = "detail_newPage" /\ failedAt = 2
    /\ Len(allProducts) = 2 /\ Len(body) = 2

\* C4: scrapeProductDetails never throws to the pagination controller,
\* whichever of its operations fails.
C4_DetailFetchNeverThrows ==
    failKind \notin {"detail_newPage", "detail_close"}

\* C5: whenever scrapeProductDetails has returned, the page context it opened
\* is closed (it returns only after the page.close() of its finally block
\* has completed).
C5_DetailPageClosedOnReturn ==
    (pc \notin DetailPcs /\ failKind # "detail_close") => detailOpen = 0

C5_Witness ==
    /\ pc = "s_details" /\ i = 2
    /\ UsableLink(products[1].link)
    /\ products[1].description = Sentinel
    /\ detailOpen = 0

\* C6 (as stated): at most one page context of the browser is open at any time.
C6_AtMostOnePageOpen == listingOpen + detailOpen <= 1

\* C6 (amended): at most one listing page and at most one detail page are open
\* at any time; a detail page is opened only while the listing page is open
\* and no other detail page is; a listing page is opened only when no other
\* page context is open.
C6_OneListingOneDetail ==
    /\ listingOpen <= 1
    /\ detailOpen <= 1
    /\ pc = "d_setUA" => (listingOpen = 1 /\ detailOpen = 1)
    /\ pc = "s_setUA" => (listingOpen = 1 /\ detailOpen = 0)

C6_Witness == pc = "d_goto" /\ listingOpen = 1 /\ detailOpen = 1

\* C7: every product of a 200 response has name, price, link, imageUrl and
\* description as non-empty strings.
NonEmptyString(v) == IsString(v) /\ v # ""
C7_ResponseFieldsAreStrings ==
    status = 200 =>
        \A k \in 1..Len(body) :
            /\ NonEmptyString(body[k].name)
            /\ NonEmptyString(body[k].price)
            /\ NonEmptyString(body[k].link)
            /\ NonEmptyString(body[k].imageUrl)
            /\ NonEmptyString(body[k].description)

\* C8: on a listing page the AI extractor is tried exactly when the API key
\* is configured, and before the selector extractor; the selector extractor is
\* invoked iff the key is absent or the AI result is empty or failed; the
\* page's products all come from one of the two extractors.
ExtractionDone == pc \in {"s_details", "s_push", "s_emptyClose"} \cup DetailPcs
C8_OneExtractorPerPage ==
    /\ (pc = "s_fallback" /\ apiKey) => aiTried
    /\ ExtractionDone =>
        /\ aiTried <=> apiKey
        /\ selTried <=> (~apiKey \/ aiEmpty)
        /\ IF selTried THEN \A k \in 1..Len(products) : FromSelector(products[k])
                       ELSE \A k \in 1..Len(products) : FromAI(products[k])

C8_Witness ==
    /\ pc = "s_details" /\ apiKey
    /\ aiTried /\ aiEmpty /\ selTried
    /\ Len(products) = 2

\* C9: extractWithAI never throws; on a network failure, a non-2xx response,
\* a response lacking the expected shape, a reply with no brace-delimited
\* object, or a JSON parse failure it returns { products: [] }.
C9_NoBraceObject(r) ==
    ~\E a, b \in 1..Len(r) : a < b /\ r[a] = "{" /\ r[b] = "}"
C9_ParseFailure(r) ==
    \E a, b \in 1..Len(r) :
        /\ a < b /\ r[a] = "{" /\ r[b] = "}"
        /\ \A j \in 1..(a-1) : r[j] # "{"
        /\ \A j \in (b+1)..Len(r) : r[j] # "}"
        /\ \E k \in (a+1)..(b-1) : r[k] \notin {"P", "D"}
C9_Failure(in) ==
    \/ in.transport \in {"network", "non2xx", "badshape"}
    \/ C9_NoBraceObject(in.reply)
    \/ C9_ParseFailure(in.reply)

C9_ExtractWithAINeverThrows ==
    pc = "x_done" =>
        /\ ~aiOut.threw
        /\ C9_Failure(aiIn) => aiOut = EmptyResult

C9_Witness ==
    /\ pc = "x_done"
    /\ aiIn.transport = "ok"
    /\ aiIn.reply = <<"{", "t", "}">>
    /\ aiOut = EmptyResult

\* C10: with the API key absent the extraction service is never called, every
\* product comes from the selector extractor, and a detail fetch whose
\* description selectors match nothing yields the sentinel.
C10_NoKeyNoServiceCall ==
    ~apiKey =>
        /\ ~aiEver
        /\ \A k \in 1..Len(products) : FromSelector(products[k])
        /\ \A k \in 1..Len(allProducts) : FromSelector(allProducts[k])
        /\ (pc = "d_finally" /\ lastEval = "nomatch") => dret = Sentinel
        /\ status = 200 =>
             \A k \in 1..Len(body) : body[k].description \in {"desc", Sentinel}

C10_Witness ==
    /\ ~apiKey /\ pc = "d_finally"
    /\ lastEval = "nomatch" /\ dret = Sentinel

\* A link that is present and is not the sentinel, read off the value itself.
HasLink(l) == l \notin {"undef", "null", "", "-"}

\* The scenario of C11: a url containing `_pgn=1`, maxPages = 2, both listing
\* pages processed without a failure and yielding the same non-zero number of
\* products, those of page 2 without a product link; the response is sent.
C11_Scenario ==
    /\ status = 200 /\ urlPgn /\ maxPages = 2
    /\ failKind = "none"
    /\ Len(found) = 2 /\ found[1] = found[2] /\ found[1] > 0
    /\ \A k \in 1..Len(allProducts) :
          allProducts[k].page = 2 => ~HasLink(allProducts[k].link)

\* C11 (as stated): in that scenario the response holds exactly the products
\* of one page (10 of the 10 + 10), each with its description populated, and
\* totalProducts is that number.
C11_OnePageOfProducts ==
    C11_Scenario =>
        /\ Len(body) = found[1]
        /\ totalProducts = found[1]
        /\ \A k \in 1..Len(body) : Truthy(body[k].description)

\* C11 (amended): in that scenario the response holds the products of both
\* pages, page 1 first, each with its description populated -- those of page 2
\* with the sentinel as description and as link -- and totalProducts is the
\* number of products of the two pages together; page 1 and page 2 were each
\* navigated once.
C11_BothPagesOfProducts ==
    C11_Scenario =>
        /\ Len(body) = found[1] + found[2]
        /\ totalProducts = found[1] + found[2]
        /\ \A k \in 1..Len(body) :
              /\ Truthy(body[k].description)
              /\ allProducts[k].page = (IF k <= found[1] THEN 1 ELSE 2)
              /\ k > found[1] =>
                    (body[k].description = Sentinel /\ body[k].link = Sentinel)
        /\ navigated = <<[index |-> 1, pgn |-> 1], [index |-> 2, pgn |-> 2]>>

C11_Witness ==
    /\ C11_Scenario
    /\ Len(body) = 2 /\ totalProducts = 2
    /\ body[1].description = "desc" /\ body[2].description = Sentinel

\* C12: a POST /scrape request whose body has no url is answered with status
\* 400 and error "URL is required"; for it no scraper is constructed, no
\* browser is launched and no page is opened.
C12_MissingUrlRejected ==
    (~hasUrl /\ pc # "h_request") =>
        /\ pc = "h_done"
        /\ status = 400 /\ errText = "URL is required"
        /\ ~scraperMade
        /\ browser = "null" /\ browserProc = "none"
        /\ pagesOpened = 0 /\ listingOpen = 0 /\ detailOpen = 0
        /\ navigated = <<>>

C12_Witness ==
    /\ pc = "h_done" /\ ~hasUrl
    /\ status = 400 /\ errText = "URL is required"

\* The absolute URLs among the values of the model; "/itm/1" and "/img/1" are
\* paths relative to the site.
AbsoluteUrls == {"https://item", "https://img"}

\* C13: for every product returned, link and imageUrl are each the sentinel
\* or an absolute URL (a relative path an extractor produced has been made
\* fully qualified, an absolute URL is passed through unchanged).
C13_LinksAbsoluteOrSentinel ==
    status = 200 =>
        \A k \in 1..Len(body) :
            /\ body[k].link \in AbsoluteUrls \cup {Sentinel}
            /\ body[k].imageUrl \in AbsoluteUrls \cup {Sentinel}

\* Each navigation of a listing page is for a page index above all those
\* navigated before it.
C14_NavigationAdvances ==
    /\ \A a, b \in 1..Len(navigated) :
          a < b => navigated[a].index < navigated[b].index
    /\ pc = "s_goto" =>
          \A a \in 1..Len(navigated) : navigated[a].index < currentPage

RECURSIVE LinkedIndices(_, _)
LinkedIndices(ps, n) ==
    IF n = 0 THEN <<>>
    ELSE LinkedIndices(ps, n - 1) \o (IF HasLink(ps[n].link) THEN <<n>> ELSE <<>>)

\* C15: within a listing page the detail fetches are issued one at a time in
\* product order, exactly for the products whose link is present and not the
\* sentinel; a product without a usable link gets description "-" and no
\* detail page is opened for it.
C15_DetailFetchesInOrder ==
    /\ detailOpen <= 1
    /\ pc \in DetailPcs =>
          (detailOpen = 1 /\ fetched = LinkedIndices(products, i))
    /\ pc \in {"s_details", "s_push"} =>
          /\ detailOpen = 0
          /\ fetched = LinkedIndices(products, i - 1)
          /\ \A k \in 1..(i - 1) :
                ~HasLink(products[k].link) => products[k].description = Sentinel
          /\ \A k \in 1..(i - 1) : products[k].description # "undef"
          /\ \A k \in i..Len(products) : products[k].description = "undef"
    /\ pc = "s_push" => i = Len(products) + 1

C15_Witness ==
    /\ pc = "s_push" /\ Len(products) = 3
    /\ fetched = <<1, 3>>
    /\ products[1].description = "desc"
    /\ products[2].description = Sentinel

\* C16: over any sequence of initBrowser and closeBrowser calls on a scraper,
\* each completing before the next begins: initBrowser launches only when no
\* handle is held and otherwise returns the held handle, so every running
\* browser is the one its scraper holds; closeBrowser with a handle held
\* leaves the browser closed and the handle cleared; closeBrowser with no
\* handle held does nothing.
C16_HandleLifecycle ==
    /\ \A p \in Procs : proc[p] = "running" => \E s \in Scrapers : sb[s] = p
    /\ \A s, t \in Scrapers : (s # t /\ sb[s] # 0) => sb[s] # sb[t]
    /\ (lastCall.op = "init" /\ ~lastCall.threw) =>
          /\ lastCall.launched <=> (lastCall.held = 0)
          /\ lastCall.held # 0 => lastCall.ret = lastCall.held
          /\ lastCall.ret # 0 /\ sb[lastCall.on] = lastCall.ret
          /\ lastCall.launched => proc[lastCall.ret] = "running"
    /\ (lastCall.op = "close" /\ lastCall.held # 0) =>
          /\ sb[lastCall.on] = 0
          /\ proc[lastCall.held] = "closed"
    /\ (lastCall.op = "close" /\ lastCall.held = 0) =>
          (~lastCall.threw /\ sb[lastCall.on] = 0)

\* The steps of a request between obtaining its browser and releasing it.
Holding == {"listing", "detail", "closing"}

\* C17: concurrent requests each have their own browser session: no two
\* requests in flight hold the same browser handle, and the browser of a
\* request in flight is running and is still held by that request's scraper,
\* whatever the other requests have released.
C17_SessionsNotShared ==
    /\ \A r, q \in Scrapers :
          (r # q /\ rpc[r] \in Holding /\ rpc[q] \in Holding) =>
              rbrowser[r] # rbrowser[q]
    /\ \A r \in Scrapers :
          rpc[r] \in Holding =>
              /\ rbrowser[r] # 0
              /\ proc[rbrowser[r]] = "running"
              /\ sb[r] = rbrowser[r]

C17_Witness ==
    /\ rpc[1] = "done" /\ rbrowser[1] # 0 /\ proc[rbrowser[1]] = "closed"
    /\ rpc[2] = "detail" /\ rbrowser[2] # 0 /\ proc[rbrowser[2]] = "running"
    /\ rbrowser[1] < rbrowser[2]

\* The element a list of candidate selectors designates when the candidates
\* are tried one after another in their listed order: the first element
\* matching the first candidate that matches anything (0: none matches).
RECURSIVE PriorityIndex(_, _, _)
PriorityIndex(dom, sels, j) ==
    IF j > Len(sels) THEN 0
    ELSE IF \E k \in 1..Len(dom) : Matches(dom[k], sels[j])
         THEN CHOOSE k \in 1..Len(dom) :
                 /\ Matches(dom[k], sels[j])
                 /\ \A m \in 1..(k - 1) : ~Matches(dom[m], sels[j])
         ELSE PriorityIndex(dom, sels, j + 1)

\* C18: in the selector extractor the name, the price and the link of a card
\* each come from the highest-priority candidate selector that matches an
\* element of the card, wherever the elements stand in the document, and are
\* the sentinel when no candidate matches.
C18_FieldsByPriority ==
    pc = "q_done" =>
        LET n == PriorityIndex(cardIn, NameSelectors, 1)
            p == PriorityIndex(cardIn, PriceSelectors, 1)
            l == PriorityIndex(cardIn, LinkSelectors, 1)
        IN  /\ cardOut.name = (IF n = 0 THEN Sentinel ELSE cardIn[n].text)
            /\ cardOut.price = (IF p = 0 THEN Sentinel ELSE cardIn[p].text)
            /\ cardOut.link = (IF l = 0 THEN Sentinel ELSE Href(cardIn[l]))

\* C19: every listing page scrapeProducts opened is closed, once, by the time
\* scrapeProducts returns, on every path.
C19_ListingPagesClosed ==
    /\ listingOpen >= 0
    /\ scrapeExit = "returned" => listingOpen = 0

====
